---- MODULE Spec2Model ----
(***************************************************************************)
(* The connection registry of mongo-connect-next: connectMongo,            *)
(* disconnectMongo and getConnectionStatus over the process-wide cache     *)
(* global._mongoConnections, with mongoose.connect / disconnect as         *)
(* external calls that settle later, successfully or not.                  *)
(*                                                                         *)
(* Two variants of connectMongo are modelled: "map", the Map-based         *)
(* registry of src/src/mongo-connect.ts lines 153-343 (with                *)
(* disconnectMongo, getConnectionStatus and the 'disconnected' listener),  *)
(* and "obj", the object-based registry of src/unnamed/part_001.           *)
(*                                                                         *)
(* A call is numbered in the order it is issued.  An acquire that invokes  *)
(* mongoose.connect owns the attempt of its own number, and the handle a   *)
(* successful attempt yields carries that number too; 0 is null.           *)
(***************************************************************************)
EXTENDS Integers, FiniteSets, TLC

\* Number of connectMongo / disconnectMongo calls issued in one run.
MaxCalls == 3

Calls == 1..MaxCalls

SINGLE_DEFAULT == "single_default"
MULTI_DEFAULT == "multi_default"
NoDbName == "<undefined>"
DbNames == {NoDbName, "users", "products"}
\* The values of dbName that `options?.dbName || ...` takes for absent.
Falsy == {NoDbName, ""}
Keys == {SINGLE_DEFAULT, MULTI_DEFAULT, "users", "products"}
NoKey == "none"
Variants == {"map", "obj"}

VARIABLES
  variant,           \* which connectMongo is loaded
  mongoConnections,  \* global._mongoConnections: key -> record
  nextCall,          \* number of the next call to be issued
  kind,              \* call -> "idle" | "acquire" | "release" | "releaseAll"
  pc,                \* call -> where the call is suspended
  dbKey,             \* call -> the key the call derived or was given
  multiDb,           \* call -> options.multiDb of an acquire (isMultiDbMode)
  uriGiven,          \* call -> options.uri or MONGODB_URI resolved for an acquire
  awaiting,          \* call -> attempt joined, or handle being disconnected
  peers,             \* call -> the acquires in flight the call overlaps
  conn,              \* attempt/handle -> state of the external connection
  discs,             \* disconnect() calls in flight: <<caller, handle>>
  discInvoked,       \* handles on which disconnect() was ever invoked
  reported,          \* acquires that logged a failed disconnect
  result,            \* call -> what the call returned or threw
  status,            \* what the last getConnectionStatus call returned
  derived            \* the last key derivation: options and the dbKey derived

vars == <<variant, mongoConnections, nextCall, kind, pc, dbKey, multiDb,
          uriGiven, awaiting, peers, conn, discs, discInvoked, reported, result,
          status, derived>>

-----------------------------------------------------------------------------
\* Records of the cache

\* A key that was never set or was deleted (Map.get returns undefined).
Absent == [present |-> FALSE, conn |-> 0, promise |-> 0]
\* { conn: null, promise: null }
NullRec == [present |-> TRUE, conn |-> 0, promise |-> 0]
\* { conn: null, promise: connectionPromise }
PendingRec(p) == [present |-> TRUE, conn |-> 0, promise |-> p]

NoResult == [kind |-> "none", h |-> 0]
Returned(h) == [kind |-> "handle", h |-> h]
Threw(e) == [kind |-> e, h |-> 0]
Void == [kind |-> "void", h |-> 0]

\* Nothing asked of getConnectionStatus yet; no key derived yet.
NoStatus == [asked |-> "none"]
NoDerivation == [multiDb |-> FALSE, dbName |-> NoDbName, dbKey |-> NoKey]

\* Mutant: the key of the version without modes, options?.dbName || "default".
DbKey_IgnoresMode(multi, dbName) ==
  IF dbName \notin Falsy THEN dbName ELSE MULTI_DEFAULT

\* const dbKey = isMultiDbMode ? options?.dbName || "multi_default" : "single_default"
DbKey(multi, dbName) ==
  IF multi THEN (IF dbName \notin Falsy THEN dbName ELSE MULTI_DEFAULT)
  ELSE SINGLE_DEFAULT

\* Mutant: the URI is not checked and mongoose.connect gets undefined.
MissingUri_Unchecked(hasUri) == FALSE

\* Mutant: the cache is looked up first, as in the connectMongo without
\* modes, and the URI is checked only when nothing is cached.
MissingUri_AfterCache(hasUri) ==
  /\ ~hasUri
  /\ mongoConnections[SINGLE_DEFAULT].conn = 0
  /\ mongoConnections[SINGLE_DEFAULT].promise = 0

\* if (!uri) throw new Error("MongoDB URI not provided. ...")
MissingUri(hasUri) == ~hasUri

\* Mutant: the reuse test taken in multi mode instead of single mode.
ReusesConn_Inverted(multi, existing) == multi /\ existing.conn # 0

\* if (!isMultiDbMode && existingConnection?.conn) return existingConnection.conn
ReusesConn(multi, existing) == ~multi /\ existing.conn # 0

\* Mutant: a pending promise is never joined.
JoinsPending_Never(multi, existing) == FALSE

\* if (!isMultiDbMode && existingConnection?.promise) return await ...promise
JoinsPending(multi, existing) == ~multi /\ existing.promise # 0

\* Mutant: the prior handle of a multi-mode key is never disconnected.
NeedsTeardown_Never(multi, existing) == FALSE

\* if (isMultiDbMode && existingConnection?.conn) { await conn.disconnect() ... }
NeedsTeardown(multi, existing) == multi /\ existing.conn # 0

\* Mutant: the Map-based continuation sets conn and leaves the promise.
OnSuccessRec_KeepsPromise(v, old, h) == [old EXCEPT !.present = TRUE, !.conn = h]

\* The record the owner's continuation leaves after `await connectionPromise`.
OnSuccessRec(v, old, h) ==
  IF v = "map" THEN [present |-> TRUE, conn |-> h, promise |-> 0]
  ELSE [old EXCEPT !.present = TRUE, !.conn = h]

\* Mutant: the catch block leaves the rejected promise in the record.
OnFailureRec_KeepsPromise(v, old) == old

\* The record the owner's catch block leaves.
OnFailureRec(v, old) ==
  IF v = "map" THEN NullRec
  ELSE [old EXCEPT !.present = TRUE, !.promise = 0]

\* What the owner's catch block throws: the Map variant wraps the driver's
\* error in a new Error, the object variant rethrows it.
OwnerError(v) == IF v = "map" THEN "ConnectionError" ELSE "DriverError"

\* What a caller suspended in `return await existingConnection.promise` gets
\* when that promise rejects: the driver's own error.
JoinerError(v) == "DriverError"

\* The 'disconnected' listener of handle h: set(dbKey, {conn: null, promise: null})
\* under the key of the acquire that registered it (Map variant only).
OnDisconnected(v, cache, h) ==
  IF v = "map" THEN [cache EXCEPT ![dbKey[h]] = NullRec] ELSE cache

\* Mutant: disconnectMongo(key) tests the record, not its conn.
HasLiveConn_IfPresent(connection) == connection.present

\* if (connection?.conn): the record exists and holds a handle.
HasLiveConn(connection) == connection.conn # 0

\* Mutant: the whole cache is dropped where one key should be.
Delete_All(cache, key) == [k \in Keys |-> Absent]

\* global._mongoConnections.delete(dbKey)
Delete(cache, key) == [cache EXCEPT ![key] = Absent]

\* global._mongoConnections.clear()
Clear(cache) == [k \in Keys |-> Absent]

\* Mutant: the two flags of the answer are swapped.
Status_Swapped(k) ==
  [connected |-> mongoConnections[k].promise # 0,
   connecting |-> mongoConnections[k].conn # 0,
   key |-> k]

\* getConnectionStatus(dbKey)
Status(k) ==
  [connected |-> mongoConnections[k].conn # 0,
   connecting |-> mongoConnections[k].promise # 0,
   key |-> k]

\* getConnectionStatus()
StatusAll ==
  [connected |-> \E k \in Keys : mongoConnections[k].conn # 0,
   connecting |-> \E k \in Keys : mongoConnections[k].promise # 0]

-----------------------------------------------------------------------------
Init ==
  /\ variant \in Variants
  /\ mongoConnections = [k \in Keys |-> Absent]
  /\ nextCall = 1
  /\ kind = [c \in Calls |-> "idle"]
  /\ pc = [c \in Calls |-> "idle"]
  /\ dbKey = [c \in Calls |-> NoKey]
  /\ multiDb = [c \in Calls |-> FALSE]
  /\ uriGiven = [c \in Calls |-> FALSE]
  /\ awaiting = [c \in Calls |-> 0]
  /\ peers = [c \in Calls |-> {}]
  /\ conn = [c \in Calls |-> "none"]
  /\ discs = {}
  /\ discInvoked = {}
  /\ reported = {}
  /\ result = [c \in Calls |-> NoResult]
  /\ status = NoStatus
  /\ derived = NoDerivation

\* Earlier acquires of key k that have not returned yet.
Unresolved(k) ==
  {d \in Calls : kind[d] = "acquire" /\ dbKey[d] = k /\ pc[d] # "done"}

\* Connection attempts in flight for the keys in ks.
PendingFor(ks) == {p \in Calls : conn[p] = "pending" /\ dbKey[p] \in ks}

\* What a caller gets from awaiting attempt p once p has settled.
Outcome(v, p) ==
  IF conn[p] = "failed" THEN Threw(JoinerError(v)) ELSE Returned(p)

\* connectMongo(options), up to its first suspension point.
ConnectMongo(c, hasUri, dbName, multi) ==
  /\ c = nextCall
  /\ nextCall' = c + 1
  /\ kind' = [kind EXCEPT ![c] = "acquire"]
  /\ multiDb' = [multiDb EXCEPT ![c] = multi]
  /\ uriGiven' = [uriGiven EXCEPT ![c] = hasUri]
  /\ UNCHANGED <<variant, status, derived, reported>>
  /\ LET key == DbKey(multi, dbName)
         existing == mongoConnections[key]
     IN
     IF MissingUri(hasUri) THEN
       \* throw new Error("MongoDB URI not provided...")
       /\ pc' = [pc EXCEPT ![c] = "done"]
       /\ result' = [result EXCEPT ![c] = Threw("ConfigurationError")]
       /\ UNCHANGED <<mongoConnections, dbKey, awaiting, peers, conn, discs,
                      discInvoked>>
     ELSE
       /\ dbKey' = [dbKey EXCEPT ![c] = key]
       /\ peers' = [peers EXCEPT ![c] = Unresolved(key)]
       /\ IF ReusesConn(multi, existing) THEN
            /\ pc' = [pc EXCEPT ![c] = "done"]
            /\ result' = [result EXCEPT ![c] = Returned(existing.conn)]
            /\ UNCHANGED <<mongoConnections, awaiting, conn, discs, discInvoked>>
          ELSE IF JoinsPending(multi, existing) THEN
            /\ awaiting' = [awaiting EXCEPT ![c] = existing.promise]
            /\ IF conn[existing.promise] = "pending" THEN
                 /\ pc' = [pc EXCEPT ![c] = "joined"]
                 /\ UNCHANGED result
               ELSE
                 /\ pc' = [pc EXCEPT ![c] = "done"]
                 /\ result' = [result EXCEPT ![c] = Outcome(variant, existing.promise)]
            /\ UNCHANGED <<mongoConnections, conn, discs, discInvoked>>
          ELSE IF NeedsTeardown(multi, existing) THEN
            \* await existingConnection.conn.disconnect()
            /\ pc' = [pc EXCEPT ![c] = "teardown"]
            /\ awaiting' = [awaiting EXCEPT ![c] = existing.conn]
            /\ discs' = discs \cup {<<c, existing.conn>>}
            /\ discInvoked' = discInvoked \cup {existing.conn}
            /\ UNCHANGED <<mongoConnections, conn, result>>
          ELSE
            \* mongoose.connect(uri, ...) and publication of the promise
            /\ pc' = [pc EXCEPT ![c] = "connecting"]
            /\ conn' = [conn EXCEPT ![c] = "pending"]
            /\ mongoConnections' = [mongoConnections EXCEPT ![key] = PendingRec(c)]
            /\ UNCHANGED <<awaiting, discs, discInvoked, result>>

\* The driver's side of a disconnect() that settles: a successful one closes
\* an open handle, which emits 'disconnected' to the handle's listener.
Closes(h, ok) == ok /\ conn[h] = "open"
AfterDisconnect(h, ok) ==
  IF Closes(h, ok) THEN OnDisconnected(variant, mongoConnections, h)
  ELSE mongoConnections

\* The disconnect() awaited by a multi-mode acquire settles; the acquire
\* resumes: the catch logs a failure, the record is reset and the new
\* connection attempt starts.
TeardownSettle(c, ok) ==
  /\ pc[c] = "teardown"
  /\ <<c, awaiting[c]>> \in discs
  /\ LET h == awaiting[c]
         reset == [AfterDisconnect(h, ok) EXCEPT ![dbKey[c]] = NullRec]
     IN
     /\ discs' = discs \ {<<c, h>>}
     /\ reported' = IF ok THEN reported ELSE reported \cup {c}
     /\ conn' = [conn EXCEPT ![h] = IF Closes(h, ok) THEN "closed" ELSE @,
                             ![c] = "pending"]
     /\ mongoConnections' = [reset EXCEPT ![dbKey[c]] = PendingRec(c)]
     /\ pc' = [pc EXCEPT ![c] = "connecting"]
  /\ UNCHANGED <<variant, status, derived, nextCall, kind, dbKey, multiDb,
                 uriGiven, awaiting, peers,
                 discInvoked, result>>

\* Mutant: the settled promise resumes its owner only.
Joiners_None(p) == {}

\* Callers suspended on attempt p.
Joiners(p) == {j \in Calls : pc[j] = "joined" /\ awaiting[j] = p}

\* The promise of attempt p settles: the owner's continuation runs first,
\* then those of the callers that joined.
ConnectSettle(p, ok) ==
  /\ pc[p] = "connecting"
  /\ conn[p] = "pending"
  /\ conn' = [conn EXCEPT ![p] = IF ok THEN "open" ELSE "failed"]
  /\ mongoConnections' =
       [mongoConnections EXCEPT ![dbKey[p]] =
          IF ok THEN OnSuccessRec(variant, @, p) ELSE OnFailureRec(variant, @)]
  /\ pc' = [j \in Calls |-> IF j = p \/ j \in Joiners(p) THEN "done" ELSE pc[j]]
  /\ result' = [j \in Calls |->
       IF j = p THEN (IF ok THEN Returned(p) ELSE Threw(OwnerError(variant)))
       ELSE IF j \in Joiners(p)
         THEN (IF ok THEN Returned(p) ELSE Threw(JoinerError(variant)))
       ELSE result[j]]
  /\ UNCHANGED <<variant, status, derived, nextCall, kind, dbKey, multiDb,
                 uriGiven, awaiting, peers,
                 discs, discInvoked, reported>>

\* The connection of an open handle is lost: the driver emits 'disconnected'.
Disconnected(h) ==
  /\ variant = "map"
  /\ conn[h] = "open"
  /\ conn' = [conn EXCEPT ![h] = "closed"]
  /\ mongoConnections' = OnDisconnected(variant, mongoConnections, h)
  /\ UNCHANGED <<variant, status, derived, nextCall, kind, pc, dbKey, multiDb,
                 uriGiven, awaiting,
                 peers, discs, discInvoked, reported, result>>

\* disconnectMongo(key), up to its suspension point.
DisconnectMongo(c, key) ==
  /\ variant = "map"
  /\ c = nextCall
  /\ nextCall' = c + 1
  /\ kind' = [kind EXCEPT ![c] = "release"]
  /\ dbKey' = [dbKey EXCEPT ![c] = key]
  /\ peers' = [peers EXCEPT ![c] = PendingFor({key})]
  /\ LET connection == mongoConnections[key] IN
     IF HasLiveConn(connection) THEN
       /\ pc' = [pc EXCEPT ![c] = "disconnecting"]
       /\ awaiting' = [awaiting EXCEPT ![c] = connection.conn]
       /\ discs' = discs \cup {<<c, connection.conn>>}
       /\ discInvoked' = discInvoked \cup {connection.conn}
       /\ UNCHANGED result
     ELSE
       /\ pc' = [pc EXCEPT ![c] = "done"]
       /\ result' = [result EXCEPT ![c] = Void]
       /\ UNCHANGED <<awaiting, discs, discInvoked>>
  /\ UNCHANGED <<variant, status, derived, mongoConnections, multiDb, uriGiven,
                 conn, reported>>

\* The disconnect() awaited by disconnectMongo(key) settles: on success the
\* key is deleted; a rejection leaves the function at the await.
DisconnectSettle(c, ok) ==
  /\ pc[c] = "disconnecting"
  /\ <<c, awaiting[c]>> \in discs
  /\ LET h == awaiting[c] IN
     /\ discs' = discs \ {<<c, h>>}
     /\ conn' = [conn EXCEPT ![h] = IF Closes(h, ok) THEN "closed" ELSE @]
     /\ mongoConnections' =
          IF ok THEN Delete(AfterDisconnect(h, ok), dbKey[c])
          ELSE mongoConnections
     /\ result' = [result EXCEPT ![c] = IF ok THEN Void ELSE Threw("TeardownError")]
  /\ pc' = [pc EXCEPT ![c] = "done"]
  /\ UNCHANGED <<variant, status, derived, nextCall, kind, dbKey, multiDb,
                 uriGiven, awaiting, peers,
                 discInvoked, reported>>

\* Keys whose record holds a handle, and those handles.
Live == {k \in Keys : HasLiveConn(mongoConnections[k])}
LiveHandles == {mongoConnections[k].conn : k \in Live}

\* disconnectMongo(), up to `await Promise.all(disconnectPromises)`: every
\* mapped callback has run to its own `await connection.conn.disconnect()`.
DisconnectAll(c) ==
  /\ variant = "map"
  /\ c = nextCall
  /\ nextCall' = c + 1
  /\ kind' = [kind EXCEPT ![c] = "releaseAll"]
  /\ pc' = [pc EXCEPT ![c] = "disconnectingAll"]
  /\ discs' = discs \cup {<<c, h>> : h \in LiveHandles}
  /\ discInvoked' = discInvoked \cup LiveHandles
  /\ peers' = [peers EXCEPT ![c] = PendingFor(Keys)]
  /\ UNCHANGED <<variant, status, derived, mongoConnections, dbKey, multiDb, uriGiven, awaiting, conn,
                 reported, result>>

\* One disconnect() started by disconnectMongo() settles.  A rejection
\* rejects Promise.all at once: the call throws and never reaches clear().
\* The other disconnects stay in flight and settle later.
DisconnectAllSettle(c, h, ok) ==
  /\ kind[c] = "releaseAll"
  /\ <<c, h>> \in discs
  /\ discs' = discs \ {<<c, h>>}
  /\ conn' = [conn EXCEPT ![h] = IF Closes(h, ok) THEN "closed" ELSE @]
  /\ mongoConnections' = AfterDisconnect(h, ok)
  /\ IF ~ok /\ pc[c] = "disconnectingAll" THEN
       /\ pc' = [pc EXCEPT ![c] = "done"]
       /\ result' = [result EXCEPT ![c] = Threw("TeardownError")]
     ELSE UNCHANGED <<pc, result>>
  /\ UNCHANGED <<variant, status, derived, nextCall, kind, dbKey, multiDb,
                 uriGiven, awaiting, peers,
                 discInvoked, reported>>

\* Promise.all resolved: global._mongoConnections.clear()
DisconnectAllFinish(c) ==
  /\ pc[c] = "disconnectingAll"
  /\ ~\E h \in Calls : <<c, h>> \in discs
  /\ mongoConnections' = Clear(mongoConnections)
  /\ pc' = [pc EXCEPT ![c] = "done"]
  /\ result' = [result EXCEPT ![c] = Void]
  /\ UNCHANGED <<variant, status, derived, nextCall, kind, dbKey, multiDb,
                 uriGiven, awaiting, peers,
                 conn, discs, discInvoked, reported>>

Next ==
  \/ \E c \in Calls, hasUri \in BOOLEAN, dbName \in DbNames, multi \in BOOLEAN :
       ConnectMongo(c, hasUri, dbName, multi)
  \/ \E c \in Calls, ok \in BOOLEAN : TeardownSettle(c, ok)
  \/ \E p \in Calls, ok \in BOOLEAN : ConnectSettle(p, ok)
  \/ \E h \in Calls : Disconnected(h)
  \/ \E c \in Calls, key \in Keys : DisconnectMongo(c, key)
  \/ \E c \in Calls, ok \in BOOLEAN : DisconnectSettle(c, ok)
  \/ \E c \in Calls : DisconnectAll(c)
  \/ \E c \in Calls, h \in Calls, ok \in BOOLEAN : DisconnectAllSettle(c, h, ok)
  \/ \E c \in Calls : DisconnectAllFinish(c)

Spec == Init /\ [][Next]_vars

-----------------------------------------------------------------------------
\* The same program where every external call that was started settles:
\* mongoose.connect() and connection.disconnect() return promises that the
\* driver resolves or rejects (serverSelectionTimeoutMS, socketTimeoutMS), and
\* the event loop runs the continuation of every settled promise.
Fairness ==
  /\ \A c \in Calls : WF_vars(\E ok \in BOOLEAN : TeardownSettle(c, ok))
  /\ \A p \in Calls : WF_vars(\E ok \in BOOLEAN : ConnectSettle(p, ok))
  /\ \A c \in Calls : WF_vars(\E ok \in BOOLEAN : DisconnectSettle(c, ok))
  /\ \A c \in Calls :
       WF_vars(\E h \in Calls, ok \in BOOLEAN : DisconnectAllSettle(c, h, ok))
  /\ \A c \in Calls : WF_vars(DisconnectAllFinish(c))

FairSpec == Spec /\ Fairness

-----------------------------------------------------------------------------
\* The pure functions of the module, applied to the inputs they can meet.

\* What became of the connection attempt of a call.
Fates == {"none", "pending", "open", "failed"}

\* Runs of the Map-based connectMongo in which the calls issued so far went
\* to distinct keys: for every call its key and the fate of its attempt.
Histories ==
  {h \in [Calls -> [key : Keys \cup {NoKey}, how : Fates]] :
     /\ \A c \in Calls : (h[c].key = NoKey) <=> (h[c].how = "none")
     /\ \A c \in Calls : c > 1 /\ h[c].key # NoKey => h[c - 1].key # NoKey
     /\ \A c, d \in Calls : c # d /\ h[c].key # NoKey => h[d].key # h[c].key}

\* The record such a run leaves under key k.
RecordAfter(h, k) ==
  IF \E c \in Calls : h[c].key = k
  THEN LET c == CHOOSE d \in Calls : h[d].key = k
       IN  CASE h[c].how = "pending" -> PendingRec(c)
             [] h[c].how = "open" -> OnSuccessRec("map", PendingRec(c), c)
             [] h[c].how = "failed" -> OnFailureRec("map", PendingRec(c))
  ELSE Absent

\* The states those runs end in, before any status was asked.
InitPure ==
  \E h \in Histories :
    /\ variant = "map"
    /\ mongoConnections = [k \in Keys |-> RecordAfter(h, k)]
    /\ nextCall = 1 + Cardinality({c \in Calls : h[c].key # NoKey})
    /\ kind = [c \in Calls |-> IF h[c].key = NoKey THEN "idle" ELSE "acquire"]
    /\ pc = [c \in Calls |->
               CASE h[c].how = "none" -> "idle"
                 [] h[c].how = "pending" -> "connecting"
                 [] OTHER -> "done"]
    /\ dbKey = [c \in Calls |-> h[c].key]
    /\ multiDb = [c \in Calls |-> h[c].key \notin {NoKey, SINGLE_DEFAULT}]
    /\ uriGiven = [c \in Calls |-> h[c].key # NoKey]
    /\ awaiting = [c \in Calls |-> 0]
    /\ peers = [c \in Calls |-> {}]
    /\ conn = [c \in Calls |-> h[c].how]
    /\ discs = {}
    /\ discInvoked = {}
    /\ reported = {}
    /\ result = [c \in Calls |->
                   CASE h[c].how = "open" -> Returned(c)
                     [] h[c].how = "failed" -> Threw(OwnerError("map"))
                     [] OTHER -> NoResult]
    /\ status = NoStatus
    /\ derived = NoDerivation

\* getConnectionStatus(dbKey?): `if (dbKey)` answers for one key, else for
\* the whole cache.
GetConnectionStatus(arg) ==
  /\ variant = "map"
  /\ status' = [asked |-> arg,
                value |-> IF arg \notin Falsy THEN Status(arg) ELSE StatusAll]
  /\ UNCHANGED <<variant, mongoConnections, nextCall, kind, pc, dbKey, multiDb,
                 uriGiven, awaiting, peers, conn, discs, discInvoked, reported,
                 result, derived>>

\* Database names an application may pass, the reserved keys among them.
DbNameInputs == DbNames \cup {"", SINGLE_DEFAULT, MULTI_DEFAULT}

\* const dbKey = isMultiDbMode ? options?.dbName || "multi_default"
\*                             : "single_default"
DeriveKey(multi, dbName) ==
  /\ derived' = [multiDb |-> multi, dbName |-> dbName,
                 dbKey |-> DbKey(multi, dbName)]
  /\ UNCHANGED <<variant, mongoConnections, nextCall, kind, pc, dbKey, multiDb,
                 uriGiven, awaiting, peers, conn, discs, discInvoked, reported,
                 result, status>>

NextPure ==
  \/ \E arg \in Keys \cup Falsy : GetConnectionStatus(arg)
  \/ \E multi \in BOOLEAN, dbName \in DbNameInputs : DeriveKey(multi, dbName)

SpecPure == InitPure /\ [][NextPure]_vars

-----------------------------------------------------------------------------
\* Vocabulary of the properties

IsAcquire(c) == kind[c] = "acquire"
Done(c) == pc[c] = "done"
OnlyAcquires == \A c \in Calls : kind[c] \in {"idle", "acquire"}

\* Two callers got the same outcome: the same handle, or a failure each.
SameOutcome(r1, r2) ==
  \/ r1.kind = "handle" /\ r2.kind = "handle" /\ r1.h = r2.h
  \/ r1.kind # "handle" /\ r2.kind # "handle"

\* Call c invoked mongoose.connect.
Connected(c) == conn[c] # "none"

\* C1 (single-flight, single mode or multi mode): when only acquires are
\* issued, an acquire c issued while an earlier acquire d of the same key had
\* not returned does not add a second connect invocation to d's, and once both
\* have returned they have the same outcome.
C1_SingleFlight ==
  OnlyAcquires =>
    \A c \in Calls : \A d \in peers[c] :
      /\ ~(Connected(c) /\ Connected(d))
      /\ (Done(c) /\ Done(d)) => SameOutcome(result[c], result[d])

\* The step is the issue of an acquire by call c.
IssuesAcquire(c) == kind[c] = "idle" /\ kind'[c] = "acquire"

\* The step invokes neither mongoose.connect nor disconnect.
NoDriverCall == conn' = conn /\ discs' = discs /\ discInvoked' = discInvoked

\* C2 as stated: every acquire with multiDb = false issued while the
\* single-mode record holds a handle, whatever its other options, returns that
\* handle and invokes neither connect nor disconnect.
C2_AnyOptionsReuse ==
  [][\A c \in Calls :
       (IssuesAcquire(c) /\ ~multiDb'[c]
          /\ mongoConnections[SINGLE_DEFAULT].conn # 0)
       => /\ result'[c] = Returned(mongoConnections[SINGLE_DEFAULT].conn)
          /\ NoDriverCall]_vars

\* C2 amended: a successful single-mode attempt leaves its handle in the
\* single-mode record, and every acquire with multiDb = false and a
\* resolvable URI issued while that record holds a handle returns the
\* recorded handle at once, invoking neither connect nor disconnect and
\* leaving the cache as it is.
C2_SingleModeReuse ==
  [][\A c \in Calls :
       /\ (conn[c] = "pending" /\ conn'[c] = "open" /\ dbKey[c] = SINGLE_DEFAULT)
          => mongoConnections'[SINGLE_DEFAULT].conn = c
       /\ (IssuesAcquire(c) /\ dbKey'[c] = SINGLE_DEFAULT
             /\ mongoConnections[SINGLE_DEFAULT].conn # 0)
          => /\ result'[c] = Returned(mongoConnections[SINGLE_DEFAULT].conn)
             /\ pc'[c] = "done"
             /\ NoDriverCall
             /\ mongoConnections' = mongoConnections]_vars

\* A single-mode acquire was served the handle another call's attempt cached.
C2_Witness ==
  \E c \in Calls, d \in Calls :
    /\ c # d /\ IsAcquire(c) /\ IsAcquire(d)
    /\ dbKey[c] = SINGLE_DEFAULT /\ dbKey[d] = SINGLE_DEFAULT
    /\ result[d] = Returned(d) /\ d \notin peers[c]
    /\ result[c] = Returned(d) /\ ~Connected(c)

\* The record of key k is as a failed attempt leaves it: no handle, no promise.
Vacant(k) == mongoConnections[k].conn = 0 /\ mongoConnections[k].promise = 0

\* The step is the rejection of attempt p's connect promise.
Rejects(p) == conn[p] = "pending" /\ conn'[p] = "failed"

\* C3 (failure clears pending): no record ever holds the promise of a failed
\* attempt; the step in which an attempt for key k is rejected leaves k with
\* no pending promise and no handle it did not have before, and in the Map
\* variant getConnectionStatus(k) then reports connected = false and
\* connecting = false; an acquire with a URI issued for a key in that state
\* invokes connect again and publishes the new promise.
C3_FailureClearsPending ==
  /\ [](\A k \in Keys : mongoConnections[k].promise # 0
          => conn[mongoConnections[k].promise] # "failed")
  /\ [][\A c \in Calls :
          /\ Rejects(c) =>
               /\ mongoConnections'[dbKey[c]].promise = 0
               /\ mongoConnections[dbKey[c]].conn = 0
                    => mongoConnections'[dbKey[c]].conn = 0
               /\ variant = "map" =>
                    /\ ~Status(dbKey[c])'.connected
                    /\ ~Status(dbKey[c])'.connecting
          /\ (IssuesAcquire(c) /\ dbKey'[c] \in Keys /\ Vacant(dbKey'[c])) =>
               /\ conn'[c] = "pending"
               /\ mongoConnections'[dbKey'[c]] = PendingRec(c)]_vars

\* An attempt failed, and an acquire of the same key issued after the failure
\* invoked connect again.
C3_Witness ==
  \E p \in Calls, c \in Calls :
    /\ conn[p] = "failed" /\ IsAcquire(c) /\ dbKey[c] = dbKey[p]
    /\ c > p /\ p \notin peers[c]
    /\ Connected(c) /\ awaiting[c] = 0

\* Call j returned from awaiting the promise of another call's attempt.
JoinedTo(j, p) ==
  IsAcquire(j) /\ dbKey[j] = SINGLE_DEFAULT /\ awaiting[j] = p /\ p # 0 /\ Done(j)

\* C4: when an attempt fails, its owner and every caller that joined it get
\* the same failure, a ConnectionError wrapping the driver's failure (stated
\* of the Map variant, whose owner wraps the error).
C4_SameFailure ==
  variant = "map" =>
    \A j \in Calls, p \in Calls :
      (JoinedTo(j, p) /\ conn[p] = "failed") =>
        /\ result[j] = result[p]
        /\ result[j] = Threw("ConnectionError")

\* C5 (multi-mode replacement): an acquire suspended in the teardown of the
\* prior handle has invoked disconnect on it and has not invoked connect; a
\* multi-mode acquire issued for a key that holds a handle invokes disconnect
\* on that handle in the step of its issue and connect in none before the
\* disconnect settles; and when the disconnect settles, successfully or not,
\* the acquire invokes connect and publishes the new promise.
C5_MultiModeReplacement ==
  /\ [](\A c \in Calls : pc[c] = "teardown" =>
          /\ ~Connected(c)
          /\ awaiting[c] \in discInvoked
          /\ <<c, awaiting[c]>> \in discs)
  /\ [][\A c \in Calls :
          /\ (IssuesAcquire(c) /\ multiDb'[c] /\ dbKey'[c] \in Keys
                /\ mongoConnections[dbKey'[c]].conn # 0) =>
               /\ pc'[c] = "teardown"
               /\ awaiting'[c] = mongoConnections[dbKey'[c]].conn
               /\ <<c, awaiting'[c]>> \in discs'
               /\ conn' = conn
          /\ (pc[c] = "teardown" /\ pc'[c] # "teardown") =>
               /\ pc'[c] = "connecting"
               /\ conn'[c] = "pending"
               /\ mongoConnections'[dbKey[c]] = PendingRec(c)]_vars

\* A multi-mode acquire whose teardown of the prior handle failed went on to
\* connect and returned its new handle.
C5_Witness ==
  \E c \in Calls :
    /\ c \in reported /\ multiDb[c] /\ awaiting[c] # 0
    /\ conn[awaiting[c]] = "open"
    /\ result[c] = Returned(c)

\* The step is one of disconnectMongo(key) called as c: its issue or its
\* resumption after the awaited disconnect.
ReleaseStep(c) == kind'[c] = "release" /\ pc'[c] # pc[c]

\* acquire users, acquire products and release("users") were issued, in that
\* order and nothing else, each returned normally, and the connection of
\* "products" was not lost.
C6_Scenario ==
  /\ nextCall = 4
  /\ IsAcquire(1) /\ multiDb[1] /\ dbKey[1] = "users" /\ result[1] = Returned(1)
  /\ IsAcquire(2) /\ multiDb[2] /\ dbKey[2] = "products" /\ result[2] = Returned(2)
  /\ kind[3] = "release" /\ dbKey[3] = "users" /\ result[3] = Void
  /\ peers[3] = {} /\ conn[2] = "open"

\* C6 (multi-mode isolation): different database names derive different
\* multi-mode keys; no step of
\* disconnectMongo(a) changes the record, hence the status, of a key other
\* than a; and after acquire users, acquire products, release("users"),
\* status("users") is not connected and status("products") is connected.
C6_MultiModeIsolation ==
  /\ [](/\ \A n1 \in DbNames \ Falsy, n2 \in DbNames \ Falsy :
             n1 # n2 => DbKey(TRUE, n1) # DbKey(TRUE, n2)
        /\ C6_Scenario =>
             /\ Status("users") =
                  [connected |-> FALSE, connecting |-> FALSE, key |-> "users"]
             /\ Status("products") =
                  [connected |-> TRUE, connecting |-> FALSE, key |-> "products"]
             /\ mongoConnections["products"].conn = 2)
  /\ [][\A c \in Calls : ReleaseStep(c) =>
          \A b \in Keys \ {dbKey'[c]} :
            /\ mongoConnections'[b] = mongoConnections[b]
            /\ Status(b)' = Status(b)]_vars

\* The scenario took place and release("users") did tear the handle down.
C6_Witness == C6_Scenario /\ awaiting[3] = 1 /\ conn[1] = "closed"

\* C7: at most one connection attempt is in flight per key.
C7_OneInFlightPerKey ==
  \A k \in Keys : Cardinality(PendingFor({k})) <= 1

\* C8: once a release issued while an attempt was pending has returned and
\* the attempt has yielded a handle, that handle has had disconnect invoked
\* on it and is not recorded in the cache.
C8_StaleHandleTornDown ==
  \A c \in Calls : \A p \in peers[c] :
    (kind[c] \in {"release", "releaseAll"} /\ Done(c) /\ conn[p] = "open") =>
      /\ p \in discInvoked
      /\ mongoConnections[dbKey[p]].conn # p

\* C9: disconnectMongo(key) for a key holding a live handle returns normally
\* and leaves the key removed, also when the disconnect fails.
C9_ReleaseSwallowsFailure ==
  [][\A c \in Calls :
       (pc[c] = "disconnecting" /\ pc'[c] = "done") =>
         /\ result'[c] = Void
         /\ mongoConnections'[dbKey[c]] = Absent]_vars

\* C10: disconnectMongo() invokes disconnect on every recorded handle, and
\* when it returns every one of those disconnects has settled and the whole
\* cache is cleared, also when a disconnect fails.
C10_ReleaseAllWaitsAndClears ==
  [][\A c \in Calls :
       /\ (kind[c] = "idle" /\ kind'[c] = "releaseAll") =>
            \A h \in LiveHandles : <<c, h>> \in discs' /\ h \in discInvoked'
       /\ (pc[c] = "disconnectingAll" /\ pc'[c] = "done") =>
            /\ ~\E h \in Calls : <<c, h>> \in discs'
            /\ mongoConnections' = [k \in Keys |-> Absent]]_vars

-----------------------------------------------------------------------------
\* Vocabulary of disconnectMongo() without a key

EmptyRegistry == [k \in Keys |-> Absent]
IssuesReleaseAll(c) == kind[c] = "idle" /\ kind'[c] = "releaseAll"
ReturnsReleaseAll(c) == pc[c] = "disconnectingAll" /\ pc'[c] = "done"

\* C11 (disconnectMongo() is idempotent): issued on an empty cache it
\* invokes no disconnect and changes nothing; whenever it returns, the cache
\* is empty and no error was raised, so that a second call right after the
\* first finds the cache empty, invokes no disconnect and raises no error.
C11_ReleaseAllIdempotent ==
  [][\A c \in Calls :
       /\ (IssuesReleaseAll(c) /\ mongoConnections = EmptyRegistry) =>
            NoDriverCall /\ mongoConnections' = mongoConnections
       /\ ReturnsReleaseAll(c) =>
            /\ mongoConnections' = EmptyRegistry
            /\ result'[c] = Void
            /\ mongoConnections = EmptyRegistry => NoDriverCall]_vars

\* C12 (missing URI): connectMongo called with no options.uri while
\* MONGODB_URI is unset throws the configuration error at once, invokes
\* neither connect nor disconnect and leaves the cache as it was, so that
\* getConnectionStatus() and getConnectionStatus(key) answer as before.
C12_MissingUriFails ==
  [][\A c \in Calls :
       (IssuesAcquire(c) /\ ~uriGiven'[c]) =>
         /\ pc'[c] = "done"
         /\ result'[c] = Threw("ConfigurationError")
         /\ NoDriverCall
         /\ mongoConnections' = mongoConnections
         /\ StatusAll' = StatusAll
         /\ \A k \in Keys : Status(k)' = Status(k)]_vars

\* A call without URI has failed after an earlier call got its handle cached.
C12_Witness ==
  \E c \in Calls, h \in Calls :
    /\ h < c
    /\ IsAcquire(c) /\ ~uriGiven[c]
    /\ result[c] = Threw("ConfigurationError")
    /\ result[h] = Returned(h)
    /\ mongoConnections[dbKey[h]].conn = h

\* The promise of attempt p resolves in this step.
Resolves(p) == conn[p] = "pending" /\ conn'[p] = "open"

\* C13 (Map-based cache): no record ever holds a handle and a pending
\* promise together, so getConnectionStatus(key) never answers connected
\* and connecting at once; the step in which an attempt resolves writes the
\* record with the new handle and no promise.
C13_HandleXorPending ==
  /\ [](variant = "map" =>
          \A k \in Keys :
            /\ ~(mongoConnections[k].conn # 0 /\ mongoConnections[k].promise # 0)
            /\ ~(Status(k).connected /\ Status(k).connecting))
  /\ [][variant = "map" =>
          \A p \in Calls : Resolves(p) =>
            mongoConnections'[dbKey[p]] =
              [present |-> TRUE, conn |-> p, promise |-> 0]]_vars

\* A multi-mode attempt resolved while a later attempt for the same key was
\* published and still in flight: the record holds the handle alone.
C13_Witness ==
  /\ variant = "map"
  /\ \E p \in Calls, q \in Calls :
       /\ p # q /\ dbKey[p] = dbKey[q]
       /\ conn[q] = "pending"
       /\ mongoConnections[dbKey[p]] = [present |-> TRUE, conn |-> p, promise |-> 0]

\* Call c, a disconnectMongo(k), a disconnectMongo() or a multi-mode
\* connectMongo for key k, takes the step that tears down or forgets what
\* it found recorded under k.
TearsDown(c, k) ==
  /\ pc'[c] # pc[c]
  /\ \/ kind'[c] = "release" /\ dbKey'[c] = k
     \/ kind'[c] = "releaseAll"
     \/ kind'[c] = "acquire" /\ multiDb'[c] /\ dbKey'[c] = k /\ pc[c] = "teardown"

\* C14 (a recorded handle stays): once a record holds a handle it keeps
\* holding that handle until disconnectMongo(key), disconnectMongo() or a
\* multi-mode connectMongo for the key tears it down, or the handle itself
\* is closed; neither an attempt for the key that fails or resolves later
\* nor the 'disconnected' event of a handle replaced earlier alters it.
C14_HandleStaysRecorded ==
  [][\A k \in Keys :
       LET h == mongoConnections[k].conn IN
       (h # 0 /\ mongoConnections'[k].conn # h) =>
         \/ \E c \in Calls : TearsDown(c, k)
         \/ conn[h] = "open" /\ conn'[h] = "closed"]_vars

-----------------------------------------------------------------------------
\* Vocabulary of the pure functions

\* The record of key k holds a handle; holds the promise of an attempt.
HoldsHandle(k) == \E h \in Calls : mongoConnections[k].conn = h
HasPending(k) == \E p \in Calls : mongoConnections[k].promise = p

\* C15 (getConnectionStatus is a pure read): asked for a key it answers
\* connected exactly when the key's record holds a handle, connecting
\* exactly when it holds a pending promise, and echoes the key; asked
\* without a key it answers the disjunction over all records and no key
\* field; no call of it changes the cache.
C15_StatusIsPureRead ==
  /\ [](status # NoStatus =>
          /\ status.asked \in Keys =>
               status.value = [connected |-> HoldsHandle(status.asked),
                               connecting |-> HasPending(status.asked),
                               key |-> status.asked]
          /\ status.asked = NoDbName =>
               status.value = [connected |-> \E k \in Keys : HoldsHandle(k),
                               connecting |-> \E k \in Keys : HasPending(k)])
  /\ [][status' # status => mongoConnections' = mongoConnections]_vars

\* The whole cache was asked while one key held a handle and another one a
\* pending promise: the answer says both.
C15_Witness ==
  /\ status # NoStatus
  /\ status.asked = NoDbName
  /\ status.value = [connected |-> TRUE, connecting |-> TRUE]
  /\ \E a \in Keys, b \in Keys :
       /\ HoldsHandle(a) /\ ~HasPending(a)
       /\ HasPending(b) /\ ~HoldsHandle(b)
       /\ \E c \in Keys : ~HoldsHandle(c) /\ ~HasPending(c)

\* C16 (key derivation): without multiDb the key is "single_default"
\* whatever dbName is; with multiDb the key is dbName when a (non-empty)
\* dbName is given and "multi_default" when it is left out.
C16_KeyDerivation ==
  derived # NoDerivation =>
    /\ ~derived.multiDb => derived.dbKey = "single_default"
    /\ (derived.multiDb /\ derived.dbName \notin {NoDbName, ""}) =>
         derived.dbKey = derived.dbName
    /\ (derived.multiDb /\ derived.dbName \in {NoDbName, ""}) =>
         derived.dbKey = "multi_default"

\* A multi-mode key was derived from a given name: the name is the key.
C16_Witness ==
  /\ derived.multiDb
  /\ derived.dbName = "users"
  /\ derived.dbKey = "users"

\* The fields of the answer of getConnectionStatus(k) and of k's record.
StatusFields(k) == DOMAIN Status(k)
RecordFields(k) == DOMAIN mongoConnections[k]

\* C17 (no partial outcome): in the step in which an attempt for
\* key k settles, either k's record holds the new handle, or it holds no
\* handle and the failure reason is stored in it, where the Map-based
\* variant's getConnectionStatus(k) reports it as the key's last error.
C17_FailureReasonRecorded ==
  [][\A p \in Calls :
       /\ Resolves(p) => mongoConnections'[dbKey[p]].conn = p
       /\ Rejects(p) =>
            /\ mongoConnections'[dbKey[p]].conn = 0
            /\ "error" \in RecordFields(dbKey[p])'
            /\ variant = "map" => "error" \in StatusFields(dbKey[p])']_vars

\* C18 (every connectMongo call completes): provided every connect() and
\* disconnect() that was started settles, every connectMongo call that was
\* issued, one that joined another call's attempt included, eventually
\* returns a handle or throws.
C18_AcquireCompletes ==
  \A c \in Calls :
    IsAcquire(c) ~> (Done(c) /\ result[c].kind \in
                       {"handle", "ConfigurationError", "ConnectionError",
                        "DriverError"})

\* A call that found another call's attempt in flight, joined it and was
\* suspended has returned.
C18_Witness ==
  \E j \in Calls, p \in Calls : JoinedTo(j, p) /\ p \in peers[j] /\ Done(p)

\* disconnectMongo(k) is issued in this step by call c.
IssuesRelease(c, k) == kind[c] = "idle" /\ kind'[c] = "release" /\ dbKey'[c] = k

\* C19 (disconnectMongo(key) without a live handle): called for a key whose
\* record is absent, holds only a pending promise or holds neither, it
\* returns at once, invokes no disconnect and leaves the whole cache as it
\* was.
C19_ReleaseWithoutHandle ==
  [][\A c \in Calls, k \in Keys :
       (IssuesRelease(c, k) /\ mongoConnections[k].conn = 0) =>
         /\ pc'[c] = "done"
         /\ result'[c] = Void
         /\ NoDriverCall
         /\ mongoConnections' = mongoConnections]_vars

\* disconnectMongo(k) has returned having found only the pending promise of
\* an attempt that is still recorded and in flight.
C19_Witness ==
  \E c \in Calls, p \in Calls :
    /\ kind[c] = "release" /\ Done(c) /\ result[c] = Void
    /\ awaiting[c] = 0
    /\ p \in peers[c]
    /\ mongoConnections[dbKey[c]] = PendingRec(p)
    /\ conn[p] = "pending"

\* The single-mode connection attempts that are in state s.
SingleAttempts(s) ==
  {p \in Calls : IsAcquire(p) /\ dbKey[p] = SINGLE_DEFAULT /\ conn[p] = s}

\* Nothing was released and the single-mode handle emitted no 'disconnected'.
Undisturbed ==
  /\ OnlyAcquires
  /\ \A h \in Calls : dbKey[h] = SINGLE_DEFAULT => conn[h] # "closed"

\* C20 (single mode is single-flight): as long as nothing is released and no
\* 'disconnected' event occurs, connectMongo calls without multiDb, however
\* interleaved, have at most one connect in flight at any time and at most
\* one connect that succeeded; a call that invokes connect found the record
\* without handle and without promise and publishes its promise in the same
\* step, with no suspension in between, and never starts a teardown.
C20_SingleModeSingleFlight ==
  /\ [](Undisturbed =>
          /\ Cardinality(SingleAttempts("pending")) <= 1
          /\ Cardinality(SingleAttempts("open")) <= 1)
  /\ [][\A c \in Calls :
          (IssuesAcquire(c) /\ uriGiven'[c] /\ ~multiDb'[c]) =>
            /\ pc'[c] \in {"done", "joined", "connecting"}
            /\ pc'[c] = "connecting" =>
                 /\ Vacant(SINGLE_DEFAULT)
                 /\ conn'[c] = "pending"
                 /\ mongoConnections'[SINGLE_DEFAULT].promise = c
            /\ pc'[c] # "connecting" => NoDriverCall]_vars

\* Three single-mode calls: the first attempt failed, the second call
\* connected, the third joined the second's attempt while it was in flight.
C20_Witness ==
  /\ Undisturbed
  /\ \E f \in Calls, p \in Calls, j \in Calls :
       /\ dbKey[f] = SINGLE_DEFAULT /\ conn[f] = "failed"
       /\ dbKey[p] = SINGLE_DEFAULT /\ conn[p] = "open"
       /\ JoinedTo(j, p) /\ p \in peers[j]
       /\ result[j] = Returned(p)

\* C21 (the URI check comes first): a connectMongo call for which no URI is
\* resolvable has thrown the configuration error, whatever the cache holds:
\* it never derived a key, never returned a cached handle and never joined
\* a pending attempt, in single mode too; a call with a URI never throws
\* that error.
C21_UriCheckPrecedesLookup ==
  \A c \in Calls :
    IsAcquire(c) =>
      /\ ~uriGiven[c] =>
           /\ Done(c)
           /\ result[c] = Threw("ConfigurationError")
           /\ dbKey[c] = NoKey
           /\ awaiting[c] = 0
           /\ conn[c] = "none"
      /\ uriGiven[c] => result[c] # Threw("ConfigurationError")

\* Single mode: call p connected, call r got p's handle from the cache,
\* then call c came without URI and failed while the handle is cached.
C21_Witness ==
  \E p \in Calls, r \in Calls, c \in Calls :
    /\ p < r /\ r < c
    /\ dbKey[p] = SINGLE_DEFAULT /\ conn[p] = "open"
    /\ mongoConnections[SINGLE_DEFAULT].conn = p
    /\ IsAcquire(r) /\ ~multiDb[r] /\ awaiting[r] = 0 /\ result[r] = Returned(p)
    /\ IsAcquire(c) /\ ~multiDb[c] /\ ~uriGiven[c]
    /\ result[c] = Threw("ConfigurationError")

\* No attempt is in flight and no call is suspended.
Quiescent ==
  /\ \A c \in Calls : pc[c] \in {"idle", "done"}
  /\ \A p \in Calls : conn[p] # "pending"
  /\ discs = {}

\* Handle h is open, no record holds it and nobody ever called disconnect()
\* on it.
Leaked(h) ==
  /\ conn[h] = "open"
  /\ \A k \in Keys : mongoConnections[k].conn # h
  /\ h \notin discInvoked

\* C22 (no connection leak): whenever no attempt is in flight and no call is
\* suspended, every connection that a connect opened and that is still open
\* is the handle recorded for its key or had disconnect() invoked on it,
\* also after concurrent multi-mode calls for one key and after attempts
\* that settled later than a disconnectMongo.
C22_NoConnectionLeak ==
  Quiescent => \A h \in Calls : ~Leaked(h)

\* A call in single mode uses the record of key k.
SingleModeSlot(k) == \E c \in Calls : IsAcquire(c) /\ ~multiDb[c] /\ dbKey[c] = k

\* C23 (the single-mode slot is apart): whatever dbName a connectMongo call
\* with multiDb passes, the key it derives is not "single_default" and is
\* not the key of a record that single-mode callers use: the call has no
\* single-mode record to read, tear down or replace.
C23_SingleSlotDisjoint ==
  (derived # NoDerivation /\ derived.multiDb) =>
    /\ derived.dbKey # "single_default"
    /\ ~SingleModeSlot(derived.dbKey)

\* C24 (object-based connectMongo): the step in which an attempt resolves
\* leaves the key's record with the new handle and no promise, and whenever
\* no attempt is in flight after connectMongo calls alone, no record holds a
\* promise.
C24_SuccessClearsPromise ==
  /\ [](variant = "obj" =>
          ((OnlyAcquires /\ \A p \in Calls : conn[p] # "pending") =>
             \A k \in Keys : mongoConnections[k].promise = 0))
  /\ [][variant = "obj" =>
          \A p \in Calls : Resolves(p) =>
            /\ mongoConnections'[dbKey[p]].conn = p
            /\ mongoConnections'[dbKey[p]].promise = 0]_vars

====
